---- MODULE Spec2Model ----
(***************************************************************************)
(* Request-observability middleware of libretune (src/request_logger.rs)   *)
(* and the server wiring of src/main.rs, as a state machine.                *)
(*                                                                         *)
(* A task is one in-flight request.  Tasks interleave at the await of the  *)
(* wrapped service and, because actix runs one middleware instance per     *)
(* worker thread, at every file-system call of the file sink.              *)
(* The wall-clock fields of RequestLog (timestamp, response_time_ms) are   *)
(* not modelled: no operation reads them back.                             *)
(***************************************************************************)
EXTENDS Integers, Sequences, FiniteSets, TLC

\* ------------------------------------------------------------------ bounds
NumTasks == 2

Tasks == 1..NumTasks

\* Option: None, or Some(v)
None == [none |-> TRUE]
Some(v) == [v |-> v]

\* ------------------------------------------------------------ input domains
\* A header value is a sequence of characters, or None when the header is
\* absent.  "~" stands for a byte that is not visible ASCII (to_str fails).
Requests ==
  { [method |-> "GET", uri |-> "/", peer |-> Some("10.0.0.1"),
     user_agent |-> Some(<<"c", "u", "r", "l">>), content_length |-> Some(<<"7">>)],
    [method |-> "GET", uri |-> "/users/42/", peer |-> None,
     user_agent |-> None, content_length |-> Some(<<"a", "b">>)] }

Responses ==
  { [status |-> 200, content_length |-> Some(<<"1", "1">>), body |-> "Welcome 42!"],
    [status |-> 503, content_length |-> Some(<<"x">>),      body |-> "unavailable"] }

\* Errors with which the wrapped service can fail before any response.
Errors == {"ConnectionAborted", "PayloadError"}

Ok(res) == [ok |-> TRUE,  res |-> res]
Err(e)  == [ok |-> FALSE, err |-> e]

\* --------------------------------------------------------- pure functions
\* Variant of from_status_code: the ranges are written half-open
from_status_code_halfopen(code) ==
  CASE code >= 200 /\ code < 299 -> "Success"
    [] code >= 300 /\ code < 399 -> "Redirect"
    [] code >= 400 /\ code < 499 -> "ClientError"
    [] code >= 500 /\ code < 599 -> "ServerError"
    [] OTHER -> "Other"

\* StatusCategory::from_status_code
from_status_code(code) ==
  CASE code >= 200 /\ code <= 299 -> "Success"
    [] code >= 300 /\ code <= 399 -> "Redirect"
    [] code >= 400 /\ code <= 499 -> "ClientError"
    [] code >= 500 /\ code <= 599 -> "ServerError"
    [] OTHER -> "Other"

\* StatusCategory::emoji (the glyphs are named, not drawn)
emoji(cat) ==
  CASE cat = "Success" -> "check"
    [] cat = "Redirect" -> "return"
    [] cat = "ClientError" -> "cross"
    [] cat = "ServerError" -> "boom"
    [] OTHER -> "question"

Digits == <<"0", "1", "2", "3", "4", "5", "6", "7", "8", "9">>
IsDigit(c) == \E i \in 1..10 : Digits[i] = c
DigitVal(c) == (CHOOSE i \in 1..10 : Digits[i] = c) - 1

RECURSIVE DecVal(_)
DecVal(s) == IF s = <<>> THEN 0
             ELSE 10 * DecVal(SubSeq(s, 1, Len(s) - 1)) + DigitVal(s[Len(s)])

\* HeaderValue::to_str: Some only when every byte is visible ASCII
to_str(h) == IF \E i \in 1..Len(h) : h[i] = "~" THEN None ELSE Some(h)

\* str::parse::<usize>: an optional '+', then one or more decimal digits
parse_usize(s) ==
  LET t == IF s # <<>> /\ s[1] = "+" THEN Tail(s) ELSE s
  IN  IF t # <<>> /\ \A i \in 1..Len(t) : IsDigit(t[i]) THEN Some(DecVal(t)) ELSE None

\* headers().get("content-length").and_then(to_str).and_then(parse).unwrap_or(0)
content_length_of(h) ==
  IF h = None THEN 0
  ELSE IF to_str(h.v) = None THEN 0
  ELSE IF parse_usize(to_str(h.v).v) = None THEN 0
  ELSE parse_usize(to_str(h.v).v).v

\* call, the synchronous part before the future: the request metadata that
\* the future captures
Capture(q) ==
  [client_ip    |-> IF q.peer = None THEN "unknown" ELSE q.peer.v,
   method       |-> q.method,
   uri          |-> q.uri,
   user_agent   |-> IF q.user_agent = None THEN None ELSE to_str(q.user_agent.v),
   request_size |-> content_length_of(q.content_length)]

\* Variant of BuildLog: request_size and response_size change places
BuildLog_mixed(cap, res) ==
  [client_ip       |-> cap.client_ip,
   method          |-> cap.method,
   uri             |-> cap.uri,
   user_agent      |-> cap.user_agent,
   status_code     |-> res.status,
   request_size    |-> content_length_of(res.content_length),
   response_size   |-> cap.request_size,
   status_category |-> from_status_code(res.status)]

\* Variant of BuildLog: the category is set on its own, not from the status
BuildLog_fixed(cap, res) ==
  [client_ip       |-> cap.client_ip,
   method          |-> cap.method,
   uri             |-> cap.uri,
   user_agent      |-> cap.user_agent,
   status_code     |-> res.status,
   request_size    |-> cap.request_size,
   response_size   |-> content_length_of(res.content_length),
   status_category |-> "Success"]

\* call, the future after the await: the RequestLog literal
BuildLog(cap, res) ==
  [client_ip       |-> cap.client_ip,
   method          |-> cap.method,
   uri             |-> cap.uri,
   user_agent      |-> cap.user_agent,
   status_code     |-> res.status,
   request_size    |-> cap.request_size,
   response_size   |-> content_length_of(res.content_length),
   status_category |-> from_status_code(res.status)]

\* Variant of ShownAgent: unwrap_or_default() in place of unwrap_or("Unknown")
ShownAgent_default(log) == IF log.user_agent = None THEN <<>> ELSE log.user_agent.v

\* log_to_console, log_to_file: log.user_agent.as_deref().unwrap_or("Unknown")
ShownAgent(log) == IF log.user_agent = None THEN <<"U", "n", "k", "n", "o", "w", "n">>
                   ELSE log.user_agent.v

\* log_to_console: the format! arguments in order
ConsoleMessage(log) ==
  <<emoji(log.status_category), log.method, log.uri, log.client_ip,
    log.status_code, log.request_size, log.response_size, ShownAgent(log)>>

\* Variant of ConsoleLevel: the Other arm logs at info
ConsoleLevel_otherinfo(log) ==
  CASE log.status_category = "Success" -> "info"
    [] log.status_category = "Redirect" -> "info"
    [] log.status_category = "ClientError" -> "warn"
    [] log.status_category = "ServerError" -> "error"
    [] OTHER -> "info"

\* log_to_console: the level the message is emitted at
ConsoleLevel(log) ==
  CASE log.status_category = "Success" -> "info"
    [] log.status_category = "Redirect" -> "info"
    [] log.status_category = "ClientError" -> "warn"
    [] log.status_category = "ServerError" -> "error"
    [] OTHER -> "warn"

\* log_to_file: the format! arguments of one line after the timestamp (the
\* trailing newline is the end of the tuple)
FileEntry(log) ==
  <<emoji(log.status_category), log.method, log.uri, log.client_ip,
    log.status_code, log.request_size, log.response_size, ShownAgent(log)>>

\* ------------------------------------------------------------------- state
VARIABLES
  config,       \* RequestLoggerConfig of the middleware: the two sink switches
  pc,           \* per task: where its request is
  via,          \* per task: "server" (through main's App) or "service" (through
                \* a RequestLoggerMiddleware built by new_transform)
  req,          \* per task: the request it carries
  captured,     \* per task: the metadata the future of call captured
  down,         \* per task: what the wrapped service resolved with
  log,          \* per task: the RequestLog built, if any
  sinks,        \* per task: the sinks log_request invoked, in order
  tracing_out,  \* per task: the tracing events it emitted, in order
  handle,       \* per task: the open file handle, if any
  file,         \* the file at log_file_path: None, or its lines in order
  ret           \* per task: what was returned to the transport

\* State outside the middleware
VARIABLES
  inputs,       \* the tasks that may run and what requests and responses exist
  fn_arg,       \* the argument a function is applied to, when one is
  fn_result,    \* what the function returned
  users,        \* the users table of the database
  dbop          \* per database client: the UserOperations call it is in

\* What the middleware's operations leave alone
rest == <<inputs, fn_arg, fn_result, users, dbop>>

vars == <<config, pc, via, req, captured, down, log, sinks, tracing_out,
          handle, file, ret, inputs, fn_arg, fn_result, users, dbop>>

\* main: the middlewares that HttpServer::new's factory wraps the App in
AppWrap == {}

\* main: the handlers registered with .service(): hello, index, search
RouteResponse(q) ==
  [status |-> 200, content_length |-> None,
   body |-> CASE q.uri = "/" -> "Hello world!"
              [] OTHER -> "Welcome 42!"]

\* Variant of OpenOptions: append(true) left out
OpenOptions_noappend == [create |-> TRUE, append |-> FALSE]

\* log_to_file: OpenOptions::new().create(true).append(true)
OpenOptions == [create |-> TRUE, append |-> TRUE]

\* Variants of CallResult: one rewrites a header of the response, one lets a
\* sink error fail the request
CallResult_strip(res, failed) == Ok([res EXCEPT !.content_length = None])
CallResult_escalate(res, failed) == IF failed THEN Err("Io") ELSE Ok(res)

\* call: the value of the future once log_request has returned; failed tells
\* whether the file sink reported an error
CallResult(res, failed) == Ok(res)

\* Variant of Propagate: the error is replaced by one of the middleware's own
Propagate_mapped(e) == Err("InternalError")

\* call: the `?` after the await, on Err(e) of the wrapped service
Propagate(e) == Err(e)

\* Variant of ConsoleEnabled: the console sink is not behind its switch
ConsoleEnabled_always(cfg) == TRUE

\* log_request: whether the console sink is invoked
ConsoleEnabled(cfg) == cfg.log_to_console

\* Variant of FileEnabled: log_request returns without the file sink
FileEnabled_never(cfg) == FALSE

\* log_request: whether the file sink is invoked
FileEnabled(cfg) == cfg.log_to_file

\* log_request: error!("Failed to write to log file: {}", e), e being the
\* io::Error of the step that failed
SinkFailure(step) == [level |-> "error", kind |-> "sink_failure", e |-> step]

FailedAt(r, step) ==
  \E i \in 1..Len(tracing_out[r]) : tracing_out[r][i] = SinkFailure(step)

SinkFailed(r) == \E step \in {"open", "write", "flush"} : FailedAt(r, step)

\* Variant of HeldAcrossAwait: a guard on the log file is taken before the
\* await and kept over it
HeldAcrossAwait_file == {"file"}

\* call: what the future holds on to while it is suspended on the await, of
\* the resources tasks share (it owns an Rc clone of the service and a clone
\* of the config; it takes no lock and no exclusive borrow)
HeldAcrossAwait == {}

\* A task needs a shared resource that a suspended task holds
Blocked(r, resource) ==
  \E o \in Tasks \ {r} : pc[o] = "awaiting" /\ resource \in HeldAcrossAwait

\* call: what `?` leaves of a record when the wrapped service fails
LogOnErr(cap, e) == None

\* Variant of LogOnDrop: a drop guard records the abandoned request
LogOnDrop_guard(cap) ==
  Some([client_ip |-> cap.client_ip, method |-> cap.method, uri |-> cap.uri,
        user_agent |-> cap.user_agent, status_code |-> 499,
        request_size |-> cap.request_size, response_size |-> 0,
        status_category |-> "ClientError"])

\* call: what dropping the suspended future leaves of a record
LogOnDrop(cap) == None

\* Database clients
NumClients == 2
Clients == 1..NumClients

\* No function is being applied
FnIdle == fn_arg = None /\ fn_result = None

\* An empty users table and no UserOperations call in progress
DbIdle == users = {} /\ dbop = [c \in Clients |-> None]

\* The middleware after construction, before any request
MwInit(I) ==
  /\ inputs = I
  /\ config \in [log_to_console : BOOLEAN, log_to_file : BOOLEAN]
  /\ pc = [r \in Tasks |-> "idle"]
  /\ via = [r \in Tasks |-> "none"]
  /\ req = [r \in Tasks |-> None]
  /\ captured = [r \in Tasks |-> None]
  /\ down = [r \in Tasks |-> None]
  /\ log = [r \in Tasks |-> None]
  /\ sinks = [r \in Tasks |-> <<>>]
  /\ tracing_out = [r \in Tasks |-> <<>>]
  /\ handle = [r \in Tasks |-> None]
  /\ file = None
  /\ ret = [r \in Tasks |-> None]

\* Concurrent requests over a small domain
Narrow == [tasks |-> Tasks, requests |-> Requests, responses |-> Responses]

Init == MwInit(Narrow) /\ FnIdle /\ DbIdle

\* Tasks are interchangeable: they start in index order.
MayStart(r) ==
  /\ r \in inputs.tasks
  /\ pc[r] = "idle"
  /\ \A o \in Tasks : o < r => pc[o] # "idle"
  /\ ~Blocked(r, "service")

\* call, up to and including service.call(req): capture, then forward
Call(r, q, how) ==
  /\ MayStart(r)
  /\ via' = [via EXCEPT ![r] = how]
  /\ req' = [req EXCEPT ![r] = q]
  /\ captured' = [captured EXCEPT ![r] = Capture(q)]
  /\ pc' = [pc EXCEPT ![r] = "awaiting"]
  /\ UNCHANGED <<rest, config, down, log, sinks, tracing_out, handle, file, ret>>

\* A request to a RequestLoggerMiddleware that new_transform built
CallService(r) == \E q \in inputs.requests : Call(r, q, "service")

\* A request to the server of main: through the App's wrapped middlewares,
\* if any, to the route handler
Serve(r) ==
  \E q \in inputs.requests :
    IF "RequestLogger" \in AppWrap
    THEN Call(r, q, "server")
    ELSE /\ MayStart(r)
         /\ via' = [via EXCEPT ![r] = "server"]
         /\ req' = [req EXCEPT ![r] = q]
         /\ ret' = [ret EXCEPT ![r] = Ok(RouteResponse(q))]
         /\ pc' = [pc EXCEPT ![r] = "done"]
         /\ UNCHANGED <<rest, config, captured, down, log, sinks, tracing_out,
                        handle, file>>

\* What the wrapped service of task r can respond with
Downstream(r) == IF via[r] = "server" THEN {RouteResponse(req[r])}
                 ELSE inputs.responses

\* call, the future: the await resolves with Ok(res); response metadata is
\* captured and the RequestLog is built
DownstreamOk(r) ==
  /\ pc[r] = "awaiting"
  /\ \E res \in Downstream(r) :
       /\ down' = [down EXCEPT ![r] = Ok(res)]
       /\ log' = [log EXCEPT ![r] = Some(BuildLog(captured[r], res))]
  /\ pc' = [pc EXCEPT ![r] = "log_request"]
  /\ UNCHANGED <<rest, config, via, req, captured, sinks, tracing_out, handle, file, ret>>

\* call, the future: the await resolves with Err(e); `?` returns it
DownstreamErr(r) ==
  /\ pc[r] = "awaiting"
  /\ via[r] = "service"
  /\ \E e \in Errors :
       /\ down' = [down EXCEPT ![r] = Err(e)]
       /\ log' = [log EXCEPT ![r] = LogOnErr(captured[r], e)]
       /\ ret' = [ret EXCEPT ![r] = Propagate(e)]
  /\ pc' = [pc EXCEPT ![r] = "done"]
  /\ UNCHANGED <<rest, config, via, req, captured, sinks, tracing_out, handle, file>>

\* The transport drops the future while it is suspended on the await
Cancel(r) ==
  /\ pc[r] = "awaiting"
  /\ pc' = [pc EXCEPT ![r] = "cancelled"]
  /\ log' = [log EXCEPT ![r] = LogOnDrop(captured[r])]
  /\ UNCHANGED <<rest, config, via, req, captured, down, sinks, tracing_out,
                 handle, file, ret>>

\* log_request: the console branch, then the test of log_to_file
LogRequest(r) ==
  /\ pc[r] = "log_request"
  /\ ~Blocked(r, "tracing")
  /\ IF ConsoleEnabled(config)
     THEN /\ sinks' = [sinks EXCEPT ![r] = Append(@, "console")]
          /\ tracing_out' = [tracing_out EXCEPT ![r] =
               Append(@, [level |-> ConsoleLevel(log[r].v), kind |-> "request",
                          message |-> ConsoleMessage(log[r].v)])]
     ELSE UNCHANGED <<sinks, tracing_out>>
  /\ pc' = [pc EXCEPT ![r] = IF FileEnabled(config) THEN "log_to_file" ELSE "return"]
  /\ UNCHANGED <<rest, config, via, req, captured, down, log, handle, file, ret>>

\* OpenOptions::open on a path: the file after a successful open
Opened(opts, f) == IF f = None THEN Some(<<>>) ELSE f

\* write_all through a handle: at the end of the file in append mode, else at
\* the handle's own position
Written(opts, h, lines, line) ==
  IF opts.append \/ h.pos >= Len(lines)
  THEN Append(lines, line)
  ELSE [lines EXCEPT ![h.pos + 1] = line]

\* Variant of FileSinkErr: log_to_file reports the error and log_request
\* reports it again
FileSinkErr_twice(r, step) ==
  /\ tracing_out' = [tracing_out EXCEPT ![r] =
                       Append(Append(@, SinkFailure(step)), SinkFailure(step))]
  /\ handle' = [handle EXCEPT ![r] = None]
  /\ pc' = [pc EXCEPT ![r] = "return"]

\* log_request: the Err arm of log_to_file; the handle, if open, is dropped
FileSinkErr(r, step) ==
  /\ tracing_out' = [tracing_out EXCEPT ![r] = Append(@, SinkFailure(step))]
  /\ handle' = [handle EXCEPT ![r] = None]
  /\ pc' = [pc EXCEPT ![r] = "return"]

\* log_to_file: open succeeds
FileOpenOk(r) ==
  /\ pc[r] = "log_to_file"
  /\ ~Blocked(r, "file")
  /\ file # None \/ OpenOptions.create
  /\ sinks' = [sinks EXCEPT ![r] = Append(@, "file")]
  /\ file' = Opened(OpenOptions, file)
  /\ handle' = [handle EXCEPT ![r] = Some([pos |-> 0])]
  /\ pc' = [pc EXCEPT ![r] = "opened"]
  /\ UNCHANGED <<rest, config, via, req, captured, down, log, tracing_out, ret>>

\* log_to_file: open fails and `?` returns the error
FileOpenErr(r) ==
  /\ pc[r] = "log_to_file"
  /\ ~Blocked(r, "file")
  /\ sinks' = [sinks EXCEPT ![r] = Append(@, "file")]
  /\ FileSinkErr(r, "open")
  /\ UNCHANGED <<rest, config, via, req, captured, down, log, file, ret>>

\* log_to_file: write_all succeeds
FileWriteOk(r) ==
  /\ pc[r] = "opened"
  /\ file' = Some(Written(OpenOptions, handle[r].v, file.v, FileEntry(log[r].v)))
  /\ handle' = [handle EXCEPT ![r] = Some([pos |-> Len(file'.v)])]
  /\ pc' = [pc EXCEPT ![r] = "written"]
  /\ UNCHANGED <<rest, config, via, req, captured, down, log, sinks, tracing_out, ret>>

\* log_to_file: write_all fails and `?` returns the error
FileWriteErr(r) ==
  /\ pc[r] = "opened"
  /\ FileSinkErr(r, "write")
  /\ UNCHANGED <<rest, config, via, req, captured, down, log, sinks, file, ret>>

\* log_to_file: flush succeeds, Ok(()) is returned and the handle is dropped
FileFlushOk(r) ==
  /\ pc[r] = "written"
  /\ handle' = [handle EXCEPT ![r] = None]
  /\ pc' = [pc EXCEPT ![r] = "return"]
  /\ UNCHANGED <<rest, config, via, req, captured, down, log, sinks, tracing_out, file, ret>>

\* log_to_file: flush fails and `?` returns the error
FileFlushErr(r) ==
  /\ pc[r] = "written"
  /\ FileSinkErr(r, "flush")
  /\ UNCHANGED <<rest, config, via, req, captured, down, log, sinks, file, ret>>

\* call, the future: Ok(res) after log_request has returned
Return(r) ==
  /\ pc[r] = "return"
  /\ ret' = [ret EXCEPT ![r] = CallResult(down[r].res, SinkFailed(r))]
  /\ pc' = [pc EXCEPT ![r] = "done"]
  /\ UNCHANGED <<rest, config, via, req, captured, down, log, sinks, tracing_out,
                 handle, file>>

Next ==
  \E r \in Tasks :
    \/ CallService(r)
    \/ Serve(r)
    \/ DownstreamOk(r)
    \/ DownstreamErr(r)
    \/ Cancel(r)
    \/ LogRequest(r)
    \/ FileOpenOk(r)
    \/ FileOpenErr(r)
    \/ FileWriteOk(r)
    \/ FileWriteErr(r)
    \/ FileFlushOk(r)
    \/ FileFlushErr(r)
    \/ Return(r)

Spec == Init /\ [][Next]_vars

\* ------------------------------------------------------------------ claims
Resolved(r) == down[r] # None /\ down[r].ok
Failed(r) == down[r] # None /\ ~down[r].ok

\* C1: whenever the wrapped service resolved with a response and call has
\* returned, what it returned is Ok of that very response (status, headers
\* and body), whatever the two sink switches are.
C1_PassThrough ==
  \A r \in Tasks :
    (Resolved(r) /\ pc[r] = "done") => ret[r] = Ok(down[r].res)

\* A request answered through the middleware with both sinks on and invoked.
C1_Witness ==
  \E r \in Tasks :
    /\ Resolved(r) /\ pc[r] = "done" /\ ret[r] = Ok(down[r].res)
    /\ sinks[r] = <<"console", "file">>
    /\ down[r].res.content_length # None

\* C2: when the wrapped service fails before any response, no RequestLog is
\* built, neither sink is invoked, nothing is emitted, and call returns that
\* same error.
C2_DownstreamError ==
  \A r \in Tasks :
    Failed(r) =>
      /\ log[r] = None
      /\ sinks[r] = <<>>
      /\ tracing_out[r] = <<>>
      /\ handle[r] = None
      /\ pc[r] = "done"
      /\ ret[r] = Err(down[r].err)

\* The wrapped service failed while both sinks were enabled.
C2_Witness ==
  \E r \in Tasks :
    /\ Failed(r) /\ ret[r] = Err("ConnectionAborted")
    /\ config.log_to_console /\ config.log_to_file

\* C3: a request whose file sink failed (at open, write or flush) is still
\* answered with Ok of the response the wrapped service produced.
C3_SinkFailureIsolated ==
  \A r \in Tasks :
    (SinkFailed(r) /\ pc[r] = "done") =>
      /\ Resolved(r)
      /\ ret[r] = Ok(down[r].res)

\* Two answered requests, one whose open failed and one whose flush failed.
C3_Witness ==
  \E r1, r2 \in Tasks :
    /\ pc[r1] = "done" /\ FailedAt(r1, "open") /\ ret[r1].ok
    /\ pc[r2] = "done" /\ FailedAt(r2, "flush") /\ ret[r2].ok

Invoked(r, sink) == \E i \in 1..Len(sinks[r]) : sinks[r][i] = sink

\* The tasks whose write_all has succeeded
Wrote(r) ==
  \/ pc[r] = "written"
  \/ /\ pc[r] \in {"return", "done"}
     /\ Invoked(r, "file")
     /\ ~FailedAt(r, "open")
     /\ ~FailedAt(r, "write")

Lines == IF file = None THEN <<>> ELSE file.v

\* The file holds exactly one whole line per task of W: the line that task
\* formatted from its own record, with its own request's method and URI
OneLineEach(W) ==
  /\ Len(Lines) = Cardinality(W)
  /\ \E f \in [1..Len(Lines) -> W] :
       /\ \A i, j \in 1..Len(Lines) : f[i] = f[j] => i = j
       /\ \A i \in 1..Len(Lines) :
            /\ Lines[i] = FileEntry(log[f[i]].v)
            /\ Lines[i][2] = req[f[i]].method
            /\ Lines[i][3] = req[f[i]].uri

Completed == {r \in Tasks : via[r] = "service" /\ pc[r] = "done" /\ Resolved(r)}

Quiescent == \A r \in Tasks : pc[r] \in {"idle", "done", "cancelled"}

\* C4 as stated: with log_to_file on, once the requests in flight have all
\* been answered, the file holds exactly one whole line per answered request.
C4_Original ==
  (config.log_to_file /\ Quiescent) => OneLineEach(Completed)

\* C4 amended: at every moment and under every interleaving the file holds
\* exactly one whole line for each request whose write_all succeeded, that
\* request's own line, and nothing for a request whose open or write failed;
\* so N answered requests leave N lines when no open or write fails.
C4_OneLinePerWrite ==
  /\ OneLineEach({r \in Tasks : Wrote(r)})
  /\ (Quiescent /\ config.log_to_file
        /\ \A r \in Completed : ~FailedAt(r, "open") /\ ~FailedAt(r, "write"))
     => OneLineEach(Completed)

\* Two different requests in flight together: the one that started second
\* wrote first, and both lines are in the file.
C4_Witness ==
  /\ pc[1] = "done" /\ pc[2] = "done"
  /\ Wrote(1) /\ Wrote(2)
  /\ req[1] # req[2]
  /\ Len(Lines) = 2
  /\ Lines[1] = FileEntry(log[2].v)

\* C5: with both sinks off, no task emits a tracing event or invokes a sink,
\* and the log file does not come to exist.
C5_SinksDisabled ==
  (~config.log_to_console /\ ~config.log_to_file) =>
    /\ \A r \in Tasks : tracing_out[r] = <<>> /\ sinks[r] = <<>> /\ handle[r] = None
    /\ file = None

\* Both sinks off, one request answered and one failed by the wrapped service.
C5_Witness ==
  /\ ~config.log_to_console /\ ~config.log_to_file
  /\ \E r1, r2 \in Tasks :
       /\ Resolved(r1) /\ pc[r1] = "done"
       /\ Failed(r2) /\ pc[r2] = "done"

\* The step of its own that a task is at, when it is not suspended
OwnStepEnabled(r) ==
  /\ (pc[r] = "idle" /\ \A o \in Tasks : o < r => pc[o] # "idle")
       => ENABLED CallService(r)
  /\ pc[r] = "awaiting" => ENABLED DownstreamOk(r)
  /\ pc[r] = "log_request" => ENABLED LogRequest(r)
  /\ pc[r] = "log_to_file" => ENABLED FileOpenOk(r)
  /\ pc[r] = "opened" => ENABLED FileWriteOk(r)
  /\ pc[r] = "written" => ENABLED FileFlushOk(r)
  /\ pc[r] = "return" => ENABLED Return(r)

\* C6: a task is suspended only at the await of the wrapped service (the one
\* place where it can be dropped), and while a task is suspended there every
\* other task can take its next step: be forwarded, resolve, log, return.
C6_NoLockAcrossAwait ==
  /\ \A r \in Tasks : (ENABLED Cancel(r)) <=> pc[r] = "awaiting"
  /\ \A r1, r2 \in Tasks :
       (r1 # r2 /\ pc[r1] = "awaiting") => OwnStepEnabled(r2)

\* The first task is still suspended; the second, started after it, has been
\* forwarded, resolved, logged to the file and answered.
C6_Witness ==
  /\ pc[1] = "awaiting"
  /\ pc[2] = "done" /\ Resolved(2) /\ Wrote(2) /\ ret[2] = Ok(down[2].res)

\* C7: a record, a sink invocation or a tracing event exists for a task only
\* if its wrapped service has resolved with a response; a task dropped while
\* suspended has none of them.
C7_NeverSpeculative ==
  \A r \in Tasks :
    /\ (log[r] # None \/ sinks[r] # <<>> \/ tracing_out[r] # <<>>
          \/ handle[r] # None) => Resolved(r)
    /\ pc[r] = "cancelled" =>
         /\ down[r] = None /\ ret[r] = None
         /\ log[r] = None /\ sinks[r] = <<>> /\ tracing_out[r] = <<>>

\* One request dropped while suspended, with both sinks on, while another
\* request was logged to both.
C7_Witness ==
  \E r1, r2 \in Tasks :
    /\ pc[r1] = "cancelled" /\ captured[r1] # None
    /\ config.log_to_console /\ config.log_to_file
    /\ pc[r2] = "done" /\ sinks[r2] = <<"console", "file">>

\* log_request has returned for task r
DispatchFinished(r) ==
  /\ handle[r] = None
  /\ config.log_to_console => Invoked(r, "console")
  /\ config.log_to_file => (Invoked(r, "file") /\ (Wrote(r) \/ SinkFailed(r)))

\* C8 as stated: once the wrapped service has produced the response, handing
\* it to the transport does not wait for the sink dispatch.
C8_Original ==
  \A r \in Tasks :
    (Resolved(r) /\ pc[r] # "done") => ENABLED Return(r)

\* C8 amended: the sink dispatch happens after the response is determined
\* and before it is handed to the transport: call returns only once
\* log_request, the file sink's open, write and flush included, has returned.
C8_ReturnAfterDispatch ==
  \A r \in Tasks :
    (via[r] = "service" /\ Resolved(r)) =>
      /\ ((ENABLED Return(r)) \/ pc[r] = "done") => DispatchFinished(r)
      /\ pc[r] \in {"log_request", "log_to_file", "opened", "written", "return"}
           => ret[r] = None

\* The line of a request is in the file and its response is not yet returned.
C8_Witness ==
  \E r \in Tasks :
    /\ Resolved(r) /\ pc[r] = "written" /\ ret[r] = None
    /\ Lines # <<>>

\* C9: a request served by the server of main has passed through the
\* middleware and, with a sink on, was dispatched to a sink.
C9_ServerIntercepted ==
  \A r \in Tasks :
    (via[r] = "server" /\ pc[r] = "done") =>
      /\ captured[r] # None
      /\ (config.log_to_console \/ config.log_to_file) => sinks[r] # <<>>

\* What a record that has reached the sinks says, against the response
C10_Inv ==
  \A r \in Tasks :
    log[r] # None =>
      /\ Resolved(r)
      /\ log[r].v.status_code = down[r].res.status
      /\ log[r].v.status_category = from_status_code(down[r].res.status)
      /\ \A i \in 1..Len(tracing_out[r]) :
           tracing_out[r][i].kind = "request" =>
             /\ tracing_out[r][i].message = ConsoleMessage(log[r].v)
             /\ tracing_out[r][i].message[1] = emoji(from_status_code(down[r].res.status))
             /\ tracing_out[r][i].message[5] = down[r].res.status
      /\ Wrote(r) =>
           \E i \in 1..Len(Lines) :
             /\ Lines[i] = FileEntry(log[r].v)
             /\ Lines[i][1] = emoji(from_status_code(down[r].res.status))
             /\ Lines[i][5] = down[r].res.status

\* C10: after every step, each record built carries the status of its own
\* request's response and the category that from_status_code gives for that
\* status, what the sinks received is that record, and a record once built
\* is not changed.
C10_RecordInvariant ==
  [][C10_Inv' /\ \A r \in Tasks : log[r] # None => log'[r] = log[r]]_vars

\* A 503 response whose record went to both sinks as a ServerError.
C10_Witness ==
  \E r \in Tasks :
    /\ pc[r] = "done" /\ sinks[r] = <<"console", "file">> /\ Wrote(r)
    /\ log[r].v.status_code = 503 /\ log[r].v.status_category = "ServerError"

\* ------------------------------------------------- functions on their own
\* The middleware's variables
mw == <<config, pc, via, req, captured, down, log, sinks, tracing_out,
        handle, file, ret, inputs>>

\* impl Default for RequestLoggerConfig, without the path
default_config == [log_to_console |-> TRUE, log_to_file |-> FALSE]

\* No task may run
Off == [tasks |-> {}, requests |-> {}, responses |-> {}]

\* The largest u16, the type of from_status_code's parameter
U16Max == 65535

InitClassify ==
  /\ MwInit(Off) /\ config = default_config
  /\ fn_arg \in {[fn |-> "from_status_code", v |-> c] : c \in 0..U16Max}
  /\ fn_result = None
  /\ DbIdle

\* StatusCategory::from_status_code(code)
Classify ==
  /\ fn_arg # None /\ fn_arg.fn = "from_status_code"
  /\ fn_result = None
  /\ fn_result' = Some(from_status_code(fn_arg.v))
  /\ UNCHANGED <<mw, fn_arg, users, dbop>>

NextClassify == Classify

SpecClassify == InitClassify /\ [][NextClassify]_vars

\* C11: for every u16 code the classifier returns one of the five
\* categories: Success on 200..299, Redirect on 300..399, ClientError on
\* 400..499, ServerError on 500..599 and Other on everything else; so 204,
\* 301, 404, 503, 150 and 999 give Success, Redirect, ClientError,
\* ServerError, Other and Other.
C11_Classifier ==
  (fn_arg # None /\ fn_arg.fn = "from_status_code" /\ fn_result # None) =>
    LET c == fn_arg.v
        k == fn_result.v
    IN  /\ k \in {"Success", "Redirect", "ClientError", "ServerError", "Other"}
        /\ c \in 200..299 <=> k = "Success"
        /\ c \in 300..399 <=> k = "Redirect"
        /\ c \in 400..499 <=> k = "ClientError"
        /\ c \in 500..599 <=> k = "ServerError"
        /\ (c < 200 \/ c > 599) <=> k = "Other"
        /\ c = 204 => k = "Success"
        /\ c = 301 => k = "Redirect"
        /\ c = 404 => k = "ClientError"
        /\ c = 503 => k = "ServerError"
        /\ c \in {150, 999} => k = "Other"

\* The last code of a range has been classified.
C11_Witness ==
  /\ fn_arg # None /\ fn_arg.fn = "from_status_code" /\ fn_arg.v = 599
  /\ fn_result = Some("ServerError")

\* ------------------------------------------- one request over a wide domain
\* content-length values that are no usize: letters, a byte that is not
\* visible ASCII, the empty value, a sign
BadLengths == {<<"a", "b">>, <<"~">>, <<>>, <<"-", "1">>}

WideRequests ==
  [method : {"GET"}, uri : {"/users/42/"},
   peer : {None, Some("10.0.0.1")},
   user_agent : {None, Some(<<"c", "u", "r", "l">>), Some(<<"~">>)},
   content_length : {None, Some(<<"7">>), Some(<<"+", "3">>)}
                      \cup {Some(b) : b \in BadLengths}]

WideResponses ==
  [status : {200, 301, 404, 503, 150},
   content_length : {None, Some(<<"1", "1">>), Some(<<"x">>)},
   body : {"Welcome 42!"}]

Wide == [tasks |-> {1}, requests |-> WideRequests, responses |-> WideResponses]

InitWide == MwInit(Wide) /\ FnIdle /\ DbIdle

SpecWide == InitWide /\ [][Next]_vars

NoLength(h) == h = None \/ h.v \in BadLengths

Unknown == <<"U", "n", "k", "n", "o", "w", "n">>

\* What each sink that was invoked for task r showed as the user agent
AgentShown(r, a) ==
  /\ \A i \in 1..Len(tracing_out[r]) :
       tracing_out[r][i].kind = "request" => tracing_out[r][i].message[8] = a
  /\ Wrote(r) => (\E i \in 1..Len(Lines) : Lines[i][8] = a)

NotUnicode == [not_unicode |-> TRUE]

\* env::var(name): Ok(text) only for a set, UTF-8 value
env_var(x) == IF x = None \/ x = NotUnicode THEN None ELSE x

\* str::parse::<bool>: exactly "true" or "false"
parse_bool(t) ==
  IF t = "true" THEN Some(TRUE) ELSE IF t = "false" THEN Some(FALSE) ELSE None

\* Option/Result::unwrap_or
unwrap_or(o, d) == IF o = None THEN d ELSE o.v

\* Variant of from_env: the fallback of log_to_file copied from log_to_console
from_env_copied(env) ==
  [log_to_console |->
     unwrap_or(parse_bool(unwrap_or(env_var(env.LOG_REQUESTS_CONSOLE), "true")), TRUE),
   log_to_file |->
     unwrap_or(parse_bool(unwrap_or(env_var(env.LOG_REQUESTS_FILE), "false")), TRUE),
   log_file_path |->
     unwrap_or(env_var(env.LOG_REQUESTS_FILE_PATH), "requests.log")]

\* RequestLoggerConfig::from_env
from_env(env) ==
  [log_to_console |->
     unwrap_or(parse_bool(unwrap_or(env_var(env.LOG_REQUESTS_CONSOLE), "true")), TRUE),
   log_to_file |->
     unwrap_or(parse_bool(unwrap_or(env_var(env.LOG_REQUESTS_FILE), "false")), FALSE),
   log_file_path |->
     unwrap_or(env_var(env.LOG_REQUESTS_FILE_PATH), "requests.log")]

BoolTexts == {"true", "false", "TRUE", "False", "1", "yes", "", " true"}
PathTexts == {"requests.log", "/var/log/app.log", ""}

Environments ==
  [LOG_REQUESTS_CONSOLE : {None, NotUnicode} \cup {Some(t) : t \in BoolTexts},
   LOG_REQUESTS_FILE : {None, NotUnicode} \cup {Some(t) : t \in BoolTexts},
   LOG_REQUESTS_FILE_PATH : {None, NotUnicode} \cup {Some(t) : t \in PathTexts}]

InitFromEnv ==
  /\ MwInit(Off) /\ config = default_config
  /\ fn_arg \in {[fn |-> "from_env", v |-> e] : e \in Environments}
  /\ fn_result = None
  /\ DbIdle

\* RequestLoggerConfig::from_env()
FromEnv ==
  /\ fn_arg # None /\ fn_arg.fn = "from_env"
  /\ fn_result = None
  /\ fn_result' = Some(from_env(fn_arg.v))
  /\ UNCHANGED <<mw, fn_arg, users, dbop>>

NextFromEnv == FromEnv

SpecFromEnv == InitFromEnv /\ [][NextFromEnv]_vars

\* The value a boolean input stands for: the given one when it is exactly
\* "true" or "false", else the default d
BoolOr(x, d) ==
  IF x = Some("true") THEN TRUE ELSE IF x = Some("false") THEN FALSE ELSE d

\* C13: from_env returns a config for every combination of the three inputs
\* being unset, valid or unusable: log_to_console is the given boolean or
\* true, log_to_file the given boolean or false, log_file_path the given
\* text or "requests.log"; the environment is as it was.
C13_FromEnv ==
  (fn_arg # None /\ fn_arg.fn = "from_env" /\ fn_result # None) =>
    LET e == fn_arg.v
        c == fn_result.v
    IN  /\ e \in Environments
        /\ c.log_to_console = BoolOr(e.LOG_REQUESTS_CONSOLE, TRUE)
        /\ c.log_to_file = BoolOr(e.LOG_REQUESTS_FILE, FALSE)
        /\ c.log_file_path =
             IF e.LOG_REQUESTS_FILE_PATH \in {None, NotUnicode}
             THEN "requests.log" ELSE e.LOG_REQUESTS_FILE_PATH.v

\* One input unset, one set to text that is no boolean, one to bytes that
\* are no UTF-8: the defaults are returned.
C13_Witness ==
  /\ fn_arg # None /\ fn_arg.fn = "from_env"
  /\ fn_arg.v.LOG_REQUESTS_CONSOLE = None
  /\ fn_arg.v.LOG_REQUESTS_FILE = Some("yes")
  /\ fn_arg.v.LOG_REQUESTS_FILE_PATH = NotUnicode
  /\ fn_result = Some([log_to_console |-> TRUE, log_to_file |-> FALSE,
                       log_file_path |-> "requests.log"])

\* --------------------------------------------------- order within a request
\* How far a request is: captured and forwarded (1), resolved with the
\* record built (2), console branch passed (3), file opened (4), line
\* written (5), log_request returned (6), answered or dropped (7)
Rank(p) ==
  CASE p = "idle" -> 0
    [] p = "awaiting" -> 1
    [] p = "log_request" -> 2
    [] p = "log_to_file" -> 3
    [] p = "opened" -> 4
    [] p = "written" -> 5
    [] p = "return" -> 6
    [] OTHER -> 7

ConsolePart == IF config.log_to_console THEN <<"console">> ELSE <<>>
FilePart == IF config.log_to_file THEN <<"file">> ELSE <<>>

RequestEvents(r) ==
  {i \in 1..Len(tracing_out[r]) : tracing_out[r][i].kind = "request"}

\* What exists of a request at each point of call; the captured values are
\* those of its own request when they are taken and stay as taken
C14_At(r) ==
    via[r] = "service" =>
      /\ captured[r] # None
      /\ Rank(pc[r]) <= 1 =>
           down[r] = None /\ log[r] = None /\ sinks[r] = <<>> /\ ret[r] = None
      /\ (Rank(pc[r]) >= 2 /\ Resolved(r)) =>
           /\ log[r] # None
           /\ log[r].v.method = req[r].method
           /\ log[r].v.uri = req[r].uri
           /\ log[r].v.user_agent = captured[r].user_agent
           /\ log[r].v.request_size = captured[r].request_size
           /\ log[r].v.status_code = down[r].res.status
      /\ pc[r] = "log_request" => sinks[r] = <<>> /\ tracing_out[r] = <<>>
      /\ pc[r] = "log_to_file" => sinks[r] = ConsolePart
      /\ pc[r] \in {"opened", "written"} => sinks[r] = ConsolePart \o <<"file">>
      /\ (Rank(pc[r]) >= 3 /\ Resolved(r)) =>
           Cardinality(RequestEvents(r)) = Len(ConsolePart)
      /\ (Rank(pc[r]) >= 6 /\ Resolved(r)) => sinks[r] = ConsolePart \o FilePart
      /\ ret[r] # None <=> pc[r] = "done"

\* C14: a request goes through capture, forward, resolve and build, console
\* sink, file sink, return in that order and never back; each enabled sink
\* is invoked exactly once for an answered request, console before file; and
\* the record's method, uri, user_agent and request_size are the ones
\* captured from its own request.
C14_RequestOrder ==
  [][\A r \in Tasks :
       IF pc'[r] = pc[r]
       THEN /\ req'[r] = req[r] /\ captured'[r] = captured[r]
            /\ log'[r] = log[r] /\ sinks'[r] = sinks[r]
       ELSE /\ Rank(pc'[r]) > Rank(pc[r])
            /\ C14_At(r)'
            /\ IF captured[r] = None
               THEN via'[r] = "service" => captured'[r] = Capture(req'[r])
               ELSE captured'[r] = captured[r] /\ req'[r] = req[r]
            /\ (Len(sinks'[r]) >= Len(sinks[r])
                  /\ SubSeq(sinks'[r], 1, Len(sinks[r])) = sinks[r])]_vars

\* Two different requests in flight together, each logged once by the
\* console and once by the file; the second to start wrote first; the first
\* is GET /users/42/ answered 200 with content-length 11.
C14_Witness ==
  /\ pc[1] = "done" /\ pc[2] = "done"
  /\ sinks[1] = <<"console", "file">> /\ sinks[2] = <<"console", "file">>
  /\ req[1] # req[2]
  /\ Wrote(1) /\ Wrote(2) /\ Lines[1] = FileEntry(log[2].v)
  /\ log[1].v.method = "GET" /\ log[1].v.uri = "/users/42/"
  /\ log[1].v.status_code = 200 /\ log[1].v.status_category = "Success"
  /\ log[1].v.response_size = 11 /\ log[1].v.request_size = 0

\* ------------------------------------------------------ file sink protocol
FailureEvents(r) ==
  {i \in 1..Len(tracing_out[r]) : tracing_out[r][i].kind = "sink_failure"}

FileCalls(r) == {i \in 1..Len(sinks[r]) : sinks[r][i] = "file"}

\* C15: a file handle is open only between the open and the end of one
\* dispatch; a dispatch opens at most once, creating the file if missing,
\* and adds at most one line, at the end; when open, write or flush fails
\* the dispatch ends there with exactly one error event and nothing more is
\* written for that record.
C15_FileSinkProtocol ==
  /\ \A r \in Tasks :
       /\ handle[r] # None <=> pc[r] \in {"opened", "written"}
       /\ Cardinality(FileCalls(r)) <= 1
       /\ Cardinality(FileCalls(r)) = 1 <=>
            (config.log_to_file /\ Rank(pc[r]) >= 4 /\ Resolved(r))
       /\ Cardinality(FailureEvents(r)) <= 1
       /\ SinkFailed(r) <=> Cardinality(FailureEvents(r)) = 1
       /\ SinkFailed(r) => (pc[r] \in {"return", "done"} /\ Invoked(r, "file"))
       /\ (FailedAt(r, "open") \/ FailedAt(r, "write")) => ~Wrote(r)
       /\ FailedAt(r, "flush") => Wrote(r)
       /\ (pc[r] = "done" /\ Invoked(r, "file")) => (Wrote(r) \/ SinkFailed(r))
  /\ file # None <=>
       \E r \in Tasks : Invoked(r, "file") /\ ~FailedAt(r, "open")
  /\ Len(Lines) = Cardinality({r \in Tasks : Wrote(r)})

\* One dispatch failed at write and left no line and no handle; another
\* wrote its line and closed.
C15_Witness ==
  \E r1, r2 \in Tasks :
    /\ pc[r1] = "done" /\ FailedAt(r1, "write") /\ handle[r1] = None
    /\ pc[r2] = "done" /\ Wrote(r2) /\ ~SinkFailed(r2) /\ handle[r2] = None
    /\ Len(Lines) = 1

\* ------------------------------------------------------------- console sink
\* The level the console sink is to use for a category
LevelOf(cat) ==
  IF cat \in {"Success", "Redirect"} THEN "info"
  ELSE IF cat \in {"ClientError", "Other"} THEN "warn"
  ELSE "error"

\* C16: once log_request has passed its console branch for a record, the
\* console has exactly one line for it when the console sink is on (none
\* when off), at info for Success and Redirect, warn for ClientError and
\* Other, error for ServerError, whatever the record's other fields; and
\* the request goes on to be answered.
C16_ConsoleLevel ==
  \A r \in Tasks :
    (via[r] = "service" /\ Resolved(r) /\ Rank(pc[r]) >= 3) =>
      /\ Cardinality(RequestEvents(r)) = Len(ConsolePart)
      /\ \A i \in RequestEvents(r) :
           /\ tracing_out[r][i].level = LevelOf(log[r].v.status_category)
           /\ tracing_out[r][i].message = ConsoleMessage(log[r].v)
      /\ log[r].v.status_category \in
           {"Success", "Redirect", "ClientError", "ServerError", "Other"}
      /\ pc[r] = "done" => ret[r] = Ok(down[r].res)

\* A response with status 150 was logged once, at warn, and answered.
C16_Witness ==
  \E r \in Tasks :
    /\ pc[r] = "done" /\ Resolved(r) /\ down[r].res.status = 150
    /\ Cardinality(RequestEvents(r)) = 1
    /\ \A i \in RequestEvents(r) : tracing_out[r][i].level = "warn"

\* ------------------------------------------------- UserOperations (db.rs)
\* A stored user is [id, username, email]; the other fields of User take no
\* part in the checks.  A call is suspended at each query it awaits, and the
\* database runs one query at a time.
Usernames == {"ann", "bob"}
Emails == {"a@x", "b@x"}

\* Ids of the users stored at the start; Uuid::new_v4 gives each create_user
\* call an id of its own
StoredIds == {<<"stored", 1>>, <<"stored", 2>>}
new_v4(c) == <<"new_v4", c>>

\* Tables the database can hold at the start
InitialTables ==
  { {},
    {[id |-> <<"stored", 1>>, username |-> "ann", email |-> "a@x"]},
    {[id |-> <<"stored", 1>>, username |-> "ann", email |-> "a@x"],
     [id |-> <<"stored", 2>>, username |-> "bob", email |-> "b@x"]} }

\* The calls a client can make.  update_user carries a whole User, so both
\* its username and its email are given.
DbCalls ==
  [op : {"create_user"}, username : Usernames, email : Emails]
  \cup [op : {"update_user"}, user_id : StoredIds,
        username : {Some(u) : u \in Usernames}, email : {Some(e) : e \in Emails}]
  \cup [op : {"update_user_fields"}, user_id : StoredIds,
        username : {None} \cup {Some(u) : u \in Usernames},
        email : {None} \cup {Some(e) : e \in Emails}]

InitDb ==
  /\ MwInit(Off) /\ config = default_config
  /\ FnIdle
  /\ users \in InitialTables
  /\ dbop = [c \in Clients |-> None]

DbFrame == UNCHANGED <<mw, fn_arg, fn_result>>

Goto(c, p) == dbop' = [dbop EXCEPT ![c].pc = p]
Finish(c, result) == dbop' = [dbop EXCEPT ![c].pc = "done", ![c].result = result]

\* A client calls create_user, update_user or update_user_fields; the call
\* runs up to its first query
DbCall(c) ==
  /\ dbop[c] = None
  /\ \E call \in DbCalls :
       dbop' = [dbop EXCEPT ![c] =
                  [call |-> call, cur |-> None, result |-> None,
                   pc |-> IF call.op = "create_user" THEN "q_email" ELSE "get"]]
  /\ UNCHANGED users
  /\ DbFrame

\* create_user: SELECT * FROM users WHERE email = $email
CreateCheckEmail(c) ==
  /\ dbop[c] # None /\ dbop[c].call.op = "create_user" /\ dbop[c].pc = "q_email"
  /\ IF \E u \in users : u.email = dbop[c].call.email
     THEN Finish(c, Err("EmailExists"))
     ELSE Goto(c, "q_username")
  /\ UNCHANGED users
  /\ DbFrame

\* create_user: SELECT * FROM users WHERE username = $username
CreateCheckUsername(c) ==
  /\ dbop[c] # None /\ dbop[c].call.op = "create_user" /\ dbop[c].pc = "q_username"
  /\ IF \E u \in users : u.username = dbop[c].call.username
     THEN Finish(c, Err("UsernameExists"))
     ELSE Goto(c, "write")
  /\ UNCHANGED users
  /\ DbFrame

\* create_user: DB.create(("users", user_id)).content(user)
CreateInsert(c) ==
  /\ dbop[c] # None /\ dbop[c].call.op = "create_user" /\ dbop[c].pc = "write"
  /\ LET user == [id |-> new_v4(c), username |-> dbop[c].call.username,
                  email |-> dbop[c].call.email]
     IN  /\ users' = users \cup {user}
         /\ Finish(c, Ok(user))
  /\ DbFrame

Updating(c) ==
  dbop[c] # None /\ dbop[c].call.op \in {"update_user", "update_user_fields"}

Changes(new, old) == new # None /\ new.v # old

\* update_user, update_user_fields: where the call next awaits, after the
\* current user is known and the checks up to `after` are passed
NextQuery(call, cur, after) ==
  IF after = "get" /\ Changes(call.username, cur.username) THEN "q_username"
  ELSE IF after \in {"get", "q_username"} /\ Changes(call.email, cur.email)
  THEN "q_email"
  ELSE "write"

\* update_user, update_user_fields: get_user_by_id(user_id)
UpdateGet(c) ==
  /\ Updating(c) /\ dbop[c].pc = "get"
  /\ IF \E u \in users : u.id = dbop[c].call.user_id
     THEN LET cur == CHOOSE u \in users : u.id = dbop[c].call.user_id
          IN  dbop' = [dbop EXCEPT ![c].cur = Some(cur),
                                   ![c].pc = NextQuery(dbop[c].call, cur, "get")]
     ELSE Finish(c, Err("UserNotFound"))
  /\ UNCHANGED users
  /\ DbFrame

\* SELECT * FROM users WHERE username = $username AND id != $user_id
UpdateCheckUsername(c) ==
  /\ Updating(c) /\ dbop[c].pc = "q_username"
  /\ IF \E u \in users : u.username = dbop[c].call.username.v
                          /\ u.id # dbop[c].call.user_id
     THEN Finish(c, Err("UsernameExists"))
     ELSE Goto(c, NextQuery(dbop[c].call, dbop[c].cur.v, "q_username"))
  /\ UNCHANGED users
  /\ DbFrame

\* SELECT * FROM users WHERE email = $email AND id != $user_id
UpdateCheckEmail(c) ==
  /\ Updating(c) /\ dbop[c].pc = "q_email"
  /\ IF \E u \in users : u.email = dbop[c].call.email.v
                          /\ u.id # dbop[c].call.user_id
     THEN Finish(c, Err("EmailExists"))
     ELSE Goto(c, "write")
  /\ UNCHANGED users
  /\ DbFrame

\* DB.update(("users", user_id)).content(user): the record is replaced by
\* the user read at the start with the given fields set
UpdateWrite(c) ==
  /\ Updating(c) /\ dbop[c].pc = "write"
  /\ LET call == dbop[c].call
         cur == dbop[c].cur.v
         user == [id |-> call.user_id,
                  username |-> IF call.username = None THEN cur.username
                               ELSE call.username.v,
                  email |-> IF call.email = None THEN cur.email ELSE call.email.v]
     IN  /\ users' = {u \in users : u.id # call.user_id} \cup {user}
         /\ Finish(c, Ok(user))
  /\ DbFrame

\* Any awaited query fails: `?` returns Error::Db
DbFail(c) ==
  /\ dbop[c] # None /\ dbop[c].pc # "done"
  /\ Finish(c, Err("Db"))
  /\ UNCHANGED users
  /\ DbFrame

NextDb ==
  \E c \in Clients :
    \/ DbCall(c)
    \/ CreateCheckEmail(c)
    \/ CreateCheckUsername(c)
    \/ CreateInsert(c)
    \/ UpdateGet(c)
    \/ UpdateCheckUsername(c)
    \/ UpdateCheckEmail(c)
    \/ UpdateWrite(c)
    \/ DbFail(c)

SpecDb == InitDb /\ [][NextDb]_vars

\* C17: whatever create_user, update_user and update_user_fields calls
\* interleave, no two stored users have the same email and no two the same
\* username.
C17_Unique ==
  \A u1, u2 \in users :
    u1.id # u2.id => (u1.email # u2.email /\ u1.username # u2.username)

====
